---- MODULE Spec2Model ----
(***************************************************************************)
(* QueueCTL: a persistent job queue (SQLite tables `jobs` and `dlq`, a     *)
(* JSON configuration file), worker processes that claim, execute and      *)
(* retry jobs, and the command-line clients that enqueue, delete, requeue  *)
(* and reconfigure.  Every store call is one SQLite transaction, so the    *)
(* steps of the model are the store calls; a call holding several          *)
(* statements (acquire_job_lock, move_to_dlq, set_config) is split where   *)
(* other processes can run in between.                                     *)
(***************************************************************************)
EXTENDS Integers, Sequences, FiniteSets, TLC

VARIABLES
    jobs,       \* table `jobs`: job id -> row (committed state)
    dlq,        \* table `dlq`: job id -> [job, reason] (committed state)
    config,     \* content of config.json: a mapping, or EmptyFile while truncated
    now,        \* the wall clock (time.time() / datetime.utcnow())
    wlock,      \* the process holding SQLite's write lock in an open transaction, 0 if none
    txn,        \* pending statements of the open transaction of each worker
    pc,         \* each worker's position in Worker.run
    running,    \* Worker.running
    ready,      \* ready_jobs still to be tried in _get_next_job
    job,        \* the Job object the worker holds
    ctime,      \* current_time of the worker's acquire_job_lock call
    err,        \* error_message argument of the pending _handle_job_failure call
    raised,     \* an exception is propagating out of _execute_job
    cpc,        \* each client's position in its CLI command
    cjob,       \* the Job object a dlq retry command holds
    ccfg,       \* the config mapping a set_config call has read and modified
    nevents,    \* number of client commands, signals and kills so far
    pAttempts,  \* retry policy inputs and result (backoff calculation)
    pBase,
    pMax,
    pDelay,
    pPrev

vars == <<jobs, dlq, config, now, wlock, txn, pc, running, ready, job, ctime, err,
          raised, cpc, cjob, ccfg, nevents, pAttempts, pBase, pMax, pDelay, pPrev>>

dbVars == <<jobs, dlq>>
workerVars == <<pc, running, ready, job, ctime, err, raised, txn>>
clientVars == <<cpc, cjob, ccfg, nevents>>
policyVars == <<pAttempts, pBase, pMax, pDelay, pPrev>>

----------------------------------------------------------------------------
(* Bounds of the model *)
NumWorkers == 2
NumJobs == 1
NumClients == 1
MaxTime == 2
MaxEvents == 3
MaxPolicyAttempts == 5

(* Program constants *)
LeaseSeconds == 300
ExecTimeout == 300
DefaultMaxRetries == 3
DefaultBackoffBase == 2
DefaultBackoffMax == 600

Workers == 1..NumWorkers
JobIds == 1..NumJobs
Clients == 1..NumClients

NULL == <<>>
Some(t) == <<t>>

PENDING == "pending"
PROCESSING == "processing"
COMPLETED == "completed"
FAILED == "failed"
DEAD == "dead"

NoError == "None"
NoJob == [id |-> 0, state |-> "none", attempts |-> 0, max_retries |-> 0,
          created_at |-> 0, next_retry_at |-> NULL, error_message |-> NoError]

(* Job.__init__ as the enqueue command calls it *)
NewJob(id, mr, t) ==
    [id |-> id, state |-> PENDING, attempts |-> 0, max_retries |-> mr,
     created_at |-> t, next_retry_at |-> NULL, error_message |-> NoError]

(* A fetched row as a Job object: every column but locked_until *)
RowToJob(id, row) ==
    [id |-> id, state |-> row.state, attempts |-> row.attempts,
     max_retries |-> row.max_retries, created_at |-> row.created_at,
     next_retry_at |-> row.next_retry_at, error_message |-> row.error_message]

(* a DELETE that deletes nothing *)
RemoveNothing(f, k) == f

(* DELETE FROM <table> WHERE id = ? *)
Remove(f, k) == [x \in DOMAIN f \ {k} |-> f[x]]

Min(a, b) == IF a <= b THEN a ELSE b

RECURSIVE Pow(_, _)
Pow(b, e) == IF e <= 0 THEN 1 ELSE b * Pow(b, e - 1)

Perms(S) ==
    {s \in [1..Cardinality(S) -> S] : \A i, k \in 1..Cardinality(S) : i # k => s[i] # s[k]}

----------------------------------------------------------------------------
(* JobStorage: the store calls as functions of the committed tables *)

DefaultConfig ==
    [max_retries |-> DefaultMaxRetries, backoff_base |-> DefaultBackoffBase,
     backoff_max_seconds |-> DefaultBackoffMax]

(* config.json between open(path, "w") and the end of json.dump *)
EmptyFile == [empty |-> TRUE]

(* json.load succeeds on the file *)
Readable(c) == "empty" \notin DOMAIN c

(* dict.get(key, default) *)
CfgGet(c, key, default) == IF key \in DOMAIN c THEN c[key] ELSE default

(* INSERT OR REPLACE INTO jobs: the columns not listed (next_retry_at,
   locked_until) take their defaults, also when the id was present *)
AddJob(js, j) ==
    (j.id :> [state |-> j.state, attempts |-> j.attempts, max_retries |-> j.max_retries,
              created_at |-> j.created_at, next_retry_at |-> NULL,
              error_message |-> j.error_message, locked_until |-> 0]) @@ js

(* update_job with attempts missing from its SET list *)
UpdateJobKeepAttempts(js, j) ==
    IF j.id \in DOMAIN js
    THEN [js EXCEPT ![j.id] =
            [state |-> j.state, attempts |-> @.attempts, max_retries |-> j.max_retries,
             created_at |-> j.created_at, next_retry_at |-> j.next_retry_at,
             error_message |-> j.error_message, locked_until |-> @.locked_until]]
    ELSE js

(* UPDATE jobs SET ... WHERE id = ?: every column of the Job object, not
   locked_until; no row, no change *)
UpdateJob(js, j) ==
    IF j.id \in DOMAIN js
    THEN [js EXCEPT ![j.id] =
            [state |-> j.state, attempts |-> j.attempts, max_retries |-> j.max_retries,
             created_at |-> j.created_at, next_retry_at |-> j.next_retry_at,
             error_message |-> j.error_message, locked_until |-> @.locked_until]]
    ELSE js

DeleteJob(js, id) == Remove(js, id)

(* a release that leaves the row as it is *)
ReleaseKeepsLock(js, id) == js

(* UPDATE jobs SET locked_until = 0 WHERE id = ? *)
ReleaseJobLock(js, id) ==
    IF id \in DOMAIN js THEN [js EXCEPT ![id].locked_until = 0] ELSE js

(* a sweep that resets every lock *)
ClearAllLocks(js, t) == [id \in DOMAIN js |-> [js[id] EXCEPT !.locked_until = 0]]

ClearExpiredLocks(js, t) ==
    [id \in DOMAIN js |->
        IF js[id].locked_until < t /\ js[id].locked_until > 0
        THEN [js[id] EXCEPT !.locked_until = 0]
        ELSE js[id]]

(* The comparison of acquire_job_lock on the value its SELECT returned *)
LockIsFree(locked_until, current_time) == locked_until < current_time

(* get_ready_jobs: pending rows ORDER BY created_at (rows of equal created_at in
   any order), then the failed rows with a next_retry_at that has passed, which
   the query leaves unordered *)
PendingIds(js) == {id \in DOMAIN js : js[id].state = PENDING}

FailedReadyIds(js, t) ==
    {id \in DOMAIN js : /\ js[id].state = FAILED
                        /\ js[id].next_retry_at # NULL
                        /\ js[id].next_retry_at[1] <= t}

PendingOrders(js) ==
    {s \in Perms(PendingIds(js)) :
        \A i, k \in 1..Len(s) : i < k => js[s[i]].created_at <= js[s[k]].created_at}

GetReadyJobs(js, t) ==
    {[i \in 1..Len(p \o f) |-> RowToJob((p \o f)[i], js[(p \o f)[i]])] :
        p \in PendingOrders(js), f \in Perms(FailedReadyIds(js, t))}

(* a record that keeps the state the job had while it ran *)
DlqRecordStale(j, max, e) ==
    [job |-> [j EXCEPT !.state = PROCESSING], reason |-> [max |-> max, err |-> e]]

(* The record move_to_dlq inserts: job.to_json() and the reason text
   "Max retries (<max>) exceeded. Last error: <err>" *)
DlqRecord(j, max, e) == [job |-> j, reason |-> [max |-> max, err |-> e]]

----------------------------------------------------------------------------
(* Retry policy of Worker._handle_job_failure *)

(* the delay without its cap *)
DelayNoCap(attempts, base, max) == Pow(base, attempts - 1)

Delay(attempts, base, max) == Min(Pow(base, attempts - 1), max)

(* a decision taken against the built-in defaults, whatever the file holds *)
DecisionConfigDefaults(c) == DefaultConfig

(* The configuration a retry decision is taken against: get_config() of the
   file as it is at the decision *)
DecisionConfig(c) == c

(* the retry budget counted one short *)
WillRetryEarly(attempts, max_retries) == attempts + 1 < max_retries

WillRetry(attempts, max_retries) == attempts < max_retries


----------------------------------------------------------------------------
(* Inputs *)
BackoffBaseChoices == (0 - 2)..3
BackoffMaxChoices == {0, 1, 2, 5, DefaultBackoffMax}
JobRetryChoices == {1, 3}
ConfigSettings == {<<"max_retries", 1>>, <<"backoff_base", 3>>, <<"backoff_max_seconds", 1>>}
TickSteps == {1}
Outcomes == {"nonzero", "timeout"}

(* result.stderr or result.stdout / "Job execution timeout" *)
ErrorText(outcome) ==
    IF outcome = "nonzero" THEN "stderr" ELSE "Job execution timeout"

----------------------------------------------------------------------------
(* SQLite transactions.  A connection opens a transaction at its first
   INSERT/UPDATE/DELETE and holds the write lock until commit; what it has
   written is not visible to other connections before the commit, and is
   dropped when the connection closes without one. *)

(* a connection in autocommit mode: every statement is its own transaction *)
Autocommit == FALSE

InTransaction == TRUE

DbFree == wlock = 0

NoTxn == <<>>

ApplyStmt(tabs, st) ==
    IF st.op = "insert_dlq"
    THEN [tabs EXCEPT !.dlq = (st.id :> st.rec) @@ tabs.dlq]
    ELSE [tabs EXCEPT !.jobs = Remove(tabs.jobs, st.id)]

RECURSIVE ApplyAll(_, _)
ApplyAll(tabs, sts) ==
    IF sts = <<>> THEN tabs ELSE ApplyAll(ApplyStmt(tabs, Head(sts)), Tail(sts))

(* One statement of worker w's move_to_dlq: buffered in the open transaction,
   or written through when the connection is in autocommit mode *)
Execute(w, st) ==
    IF InTransaction
    THEN /\ txn' = [txn EXCEPT ![w] = Append(@, st)]
         /\ wlock' = w
         /\ UNCHANGED dbVars
    ELSE /\ jobs' = ApplyStmt([jobs |-> jobs, dlq |-> dlq], st).jobs
         /\ dlq' = ApplyStmt([jobs |-> jobs, dlq |-> dlq], st).dlq
         /\ UNCHANGED <<txn, wlock>>

----------------------------------------------------------------------------
SystemInit ==
    /\ jobs = <<>>
    /\ dlq = <<>>
    /\ config = DefaultConfig
    /\ now = 1
    /\ wlock = 0
    /\ txn = [w \in Workers |-> NoTxn]
    /\ pc = [w \in Workers |-> "poll"]
    /\ running = [w \in Workers |-> TRUE]
    /\ ready = [w \in Workers |-> <<>>]
    /\ job = [w \in Workers |-> NoJob]
    /\ ctime = [w \in Workers |-> 0]
    /\ err = [w \in Workers |-> NoError]
    /\ raised = [w \in Workers |-> FALSE]
    /\ cpc = [c \in Clients |-> "idle"]
    /\ cjob = [c \in Clients |-> NoJob]
    /\ ccfg = [c \in Clients |-> DefaultConfig]
    /\ nevents = 0

Init ==
    /\ SystemInit
    /\ pAttempts = 0
    /\ pBase = DefaultBackoffBase
    /\ pMax = DefaultBackoffMax
    /\ pDelay = 0
    /\ pPrev = 0

----------------------------------------------------------------------------
(* Worker.run *)

(* while self.running: ... clear_expired_locks() *)
WClearExpired(w) ==
    /\ pc[w] = "poll"
    /\ running[w]
    /\ DbFree
    /\ jobs' = ClearExpiredLocks(jobs, now)
    /\ pc' = [pc EXCEPT ![w] = "getready"]
    /\ UNCHANGED <<dlq, config, now, wlock, txn, running, ready, job, ctime, err, raised>>
    /\ UNCHANGED <<clientVars, policyVars>>

(* the loop condition fails: the worker stops *)
WStop(w) ==
    /\ pc[w] = "poll"
    /\ ~running[w]
    /\ pc' = [pc EXCEPT ![w] = "stopped"]
    /\ UNCHANGED <<dbVars, config, now, wlock, txn, running, ready, job, ctime, err, raised>>
    /\ UNCHANGED <<clientVars, policyVars>>

(* a signal with its default disposition: the process ends where it stands *)
ShutdownKills(w) ==
    /\ pc[w] \notin {"stopped", "crashed"}
    /\ running[w]
    /\ nevents < MaxEvents
    /\ nevents' = nevents + 1
    /\ running' = [running EXCEPT ![w] = FALSE]
    /\ pc' = [pc EXCEPT ![w] = "stopped"]
    /\ txn' = [txn EXCEPT ![w] = NoTxn]
    /\ wlock' = IF wlock = w THEN 0 ELSE wlock
    /\ UNCHANGED <<dbVars, config, now, ready, job, ctime, err, raised>>
    /\ UNCHANGED <<cpc, cjob, ccfg, policyVars>>

(* _handle_shutdown: SIGTERM or SIGINT *)
Shutdown(w) ==
    /\ pc[w] \notin {"stopped", "crashed"}
    /\ running[w]
    /\ nevents < MaxEvents
    /\ nevents' = nevents + 1
    /\ running' = [running EXCEPT ![w] = FALSE]
    /\ UNCHANGED <<dbVars, config, now, wlock, txn, pc, ready, job, ctime, err, raised>>
    /\ UNCHANGED <<cpc, cjob, ccfg, policyVars>>

(* _get_next_job: ready_jobs = get_ready_jobs(); no candidate: sleep, next poll *)
WGetReady(w) ==
    /\ pc[w] = "getready"
    /\ \E r \in GetReadyJobs(jobs, now) :
        /\ ready' = [ready EXCEPT ![w] = r]
        /\ pc' = [pc EXCEPT ![w] = IF r = <<>> THEN "poll" ELSE "select"]
    /\ UNCHANGED <<dbVars, config, now, wlock, txn, running, job, ctime, err, raised>>
    /\ UNCHANGED <<clientVars, policyVars>>

(* the next candidate of the for loop, or the end of _get_next_job *)
NextCandidate(w) ==
    /\ ready' = [ready EXCEPT ![w] = Tail(@)]
    /\ pc' = [pc EXCEPT ![w] = IF Tail(ready[w]) = <<>> THEN "poll" ELSE "select"]
    /\ UNCHANGED ctime

(* acquire_job_lock, first statement: current_time = time.time(); SELECT
   locked_until; no row or a lock not yet expired: return False *)
WLockSelect(w) ==
    /\ pc[w] = "select"
    /\ LET id == Head(ready[w]).id IN
        IF id \in DOMAIN jobs /\ LockIsFree(jobs[id].locked_until, now)
        THEN /\ ctime' = [ctime EXCEPT ![w] = now]
             /\ pc' = [pc EXCEPT ![w] = "update"]
             /\ UNCHANGED ready
        ELSE NextCandidate(w)
    /\ UNCHANGED <<dbVars, config, now, wlock, txn, running, job, err, raised>>
    /\ UNCHANGED <<clientVars, policyVars>>

(* acquire_job_lock, second statement: UPDATE locked_until = current_time +
   duration; commit; return True.  Back in _get_next_job the candidate is the
   job to run, after the failed -> pending update when it was failed. *)
WLockUpdate(w) ==
    /\ pc[w] = "update"
    /\ DbFree
    /\ LET cand == Head(ready[w]) IN
        /\ jobs' = IF cand.id \in DOMAIN jobs
                   THEN [jobs EXCEPT ![cand.id].locked_until = ctime[w] + LeaseSeconds]
                   ELSE jobs
        /\ job' = [job EXCEPT ![w] = cand]
        /\ pc' = [pc EXCEPT ![w] = IF cand.state = FAILED THEN "normalise" ELSE "markproc"]
    /\ ready' = [ready EXCEPT ![w] = <<>>]
    /\ UNCHANGED <<dlq, config, now, wlock, txn, running, ctime, err, raised>>
    /\ UNCHANGED <<clientVars, policyVars>>

(* _get_next_job: job.state = PENDING; job.next_retry_at = None; update_job *)
WNormalise(w) ==
    /\ pc[w] = "normalise"
    /\ DbFree
    /\ LET j == [job[w] EXCEPT !.state = PENDING, !.next_retry_at = NULL] IN
        /\ job' = [job EXCEPT ![w] = j]
        /\ jobs' = UpdateJob(jobs, j)
    /\ pc' = [pc EXCEPT ![w] = "markproc"]
    /\ UNCHANGED <<dlq, config, now, wlock, txn, running, ready, ctime, err, raised>>
    /\ UNCHANGED <<clientVars, policyVars>>

(* _execute_job: job.state = PROCESSING; job.attempts += 1; update_job; then
   subprocess.run starts *)
WMarkProcessing(w) ==
    /\ pc[w] = "markproc"
    /\ DbFree
    /\ LET j == [job[w] EXCEPT !.state = PROCESSING, !.attempts = @ + 1] IN
        /\ job' = [job EXCEPT ![w] = j]
        /\ jobs' = UpdateJob(jobs, j)
    /\ pc' = [pc EXCEPT ![w] = "run"]
    /\ UNCHANGED <<dlq, config, now, wlock, txn, running, ready, ctime, err, raised>>
    /\ UNCHANGED <<clientVars, policyVars>>

(* returncode == 0: job.state = COMPLETED; job.error_message = None; update_job *)
WRunSuccess(w) ==
    /\ pc[w] = "run"
    /\ DbFree
    /\ LET j == [job[w] EXCEPT !.state = COMPLETED, !.error_message = NoError] IN
        /\ job' = [job EXCEPT ![w] = j]
        /\ jobs' = UpdateJob(jobs, j)
    /\ pc' = [pc EXCEPT ![w] = "release"]
    /\ UNCHANGED <<dlq, config, now, wlock, txn, running, ready, ctime, err, raised>>
    /\ UNCHANGED <<clientVars, policyVars>>

(* An exception leaves _handle_job_failure.  Raised by the call in the try
   block it is caught by `except Exception`, which calls _handle_job_failure
   again with str(e); raised by a call in an except block it runs the finally
   block and leaves _execute_job. *)
Raise(w, j, catchable, text) ==
    /\ job' = [job EXCEPT ![w] = j]
    /\ IF catchable
       THEN /\ pc' = [pc EXCEPT ![w] = "fail2"]
            /\ err' = [err EXCEPT ![w] = text]
            /\ UNCHANGED raised
       ELSE /\ pc' = [pc EXCEPT ![w] = "release"]
            /\ raised' = [raised EXCEPT ![w] = TRUE]
            /\ UNCHANGED err
    /\ UNCHANGED <<dbVars, wlock, txn>>

(* _handle_job_failure(job, e) up to its first statement on the database *)
HandleJobFailure(w, e, catchable) ==
    IF ~Readable(config)
    THEN Raise(w, job[w], catchable, "JSONDecodeError")
    ELSE
      LET c == DecisionConfig(config)
          max_retries == CfgGet(c, "max_retries", DefaultMaxRetries)
          backoff_base == CfgGet(c, "backoff_base", DefaultBackoffBase)
          backoff_max == CfgGet(c, "backoff_max_seconds", DefaultBackoffMax)
      IN
        IF WillRetry(job[w].attempts, max_retries)
        THEN
          LET j == [job[w] EXCEPT
                      !.state = FAILED, !.error_message = e,
                      !.next_retry_at =
                          Some(now + Delay(job[w].attempts, backoff_base, backoff_max))]
          IN /\ DbFree
             /\ job' = [job EXCEPT ![w] = j]
             /\ jobs' = UpdateJob(jobs, j)
             /\ pc' = [pc EXCEPT ![w] = "release"]
             /\ UNCHANGED <<dlq, wlock, txn, err, raised>>
        ELSE
          LET j == [job[w] EXCEPT !.state = DEAD, !.error_message = e] IN
            /\ DbFree
            /\ IF j.id \in DOMAIN dlq
               THEN Raise(w, j, catchable, "IntegrityError")
               ELSE /\ Execute(w, [op |-> "insert_dlq", id |-> j.id,
                                   rec |-> DlqRecord(j, max_retries, e)])
                    /\ job' = [job EXCEPT ![w] = j]
                    /\ pc' = [pc EXCEPT ![w] = "dlq_delete"]
                    /\ UNCHANGED <<err, raised>>

(* subprocess.run ended with a nonzero exit code, a timeout or an exception *)
WRunFailure(w) ==
    /\ pc[w] = "run"
    /\ \E o \in Outcomes : HandleJobFailure(w, ErrorText(o), o = "nonzero")
    /\ UNCHANGED <<config, now, running, ready, ctime>>
    /\ UNCHANGED <<clientVars, policyVars>>

(* except Exception as e: self._handle_job_failure(job, str(e)) *)
WFailureAgain(w) ==
    /\ pc[w] = "fail2"
    /\ HandleJobFailure(w, err[w], FALSE)
    /\ UNCHANGED <<config, now, running, ready, ctime>>
    /\ UNCHANGED <<clientVars, policyVars>>

(* move_to_dlq: DELETE FROM jobs WHERE id = ? *)
WDlqDelete(w) ==
    /\ pc[w] = "dlq_delete"
    /\ wlock \in {0, w}
    /\ Execute(w, [op |-> "delete_job", id |-> job[w].id, rec |-> NoJob])
    /\ pc' = [pc EXCEPT ![w] = "dlq_commit"]
    /\ UNCHANGED <<config, now, running, ready, job, ctime, err, raised>>
    /\ UNCHANGED <<clientVars, policyVars>>

(* move_to_dlq: conn.commit() *)
WDlqCommit(w) ==
    /\ pc[w] = "dlq_commit"
    /\ jobs' = ApplyAll([jobs |-> jobs, dlq |-> dlq], txn[w]).jobs
    /\ dlq' = ApplyAll([jobs |-> jobs, dlq |-> dlq], txn[w]).dlq
    /\ txn' = [txn EXCEPT ![w] = NoTxn]
    /\ wlock' = 0
    /\ pc' = [pc EXCEPT ![w] = "release"]
    /\ UNCHANGED <<config, now, running, ready, job, ctime, err, raised>>
    /\ UNCHANGED <<clientVars, policyVars>>

(* finally: release_job_lock(job.id); then the next poll, or the exception
   reaches Worker.run, which prints it and stops *)
WRelease(w) ==
    /\ pc[w] = "release"
    /\ DbFree
    /\ jobs' = ReleaseJobLock(jobs, job[w].id)
    /\ pc' = [pc EXCEPT ![w] = IF raised[w] THEN "stopped" ELSE "poll"]
    /\ job' = [job EXCEPT ![w] = NoJob]
    /\ err' = [err EXCEPT ![w] = NoError]
    /\ raised' = [raised EXCEPT ![w] = FALSE]
    /\ ctime' = [ctime EXCEPT ![w] = 0]
    /\ UNCHANGED <<dlq, config, now, wlock, txn, running, ready>>
    /\ UNCHANGED <<clientVars, policyVars>>

(* The worker process is killed: its open transaction is rolled back *)
Crash(w) ==
    /\ pc[w] \notin {"stopped", "crashed"}
    /\ nevents < MaxEvents
    /\ nevents' = nevents + 1
    /\ pc' = [pc EXCEPT ![w] = "crashed"]
    /\ txn' = [txn EXCEPT ![w] = NoTxn]
    /\ wlock' = IF wlock = w THEN 0 ELSE wlock
    /\ ready' = [ready EXCEPT ![w] = <<>>]
    /\ job' = [job EXCEPT ![w] = NoJob]
    /\ err' = [err EXCEPT ![w] = NoError]
    /\ raised' = [raised EXCEPT ![w] = FALSE]
    /\ ctime' = [ctime EXCEPT ![w] = 0]
    /\ UNCHANGED <<dbVars, config, now, running>>
    /\ UNCHANGED <<cpc, cjob, ccfg, policyVars>>


----------------------------------------------------------------------------
(* The command-line clients (cli.py) *)

(* enqueue: storage.add_job(Job(id, command, max_retries)) *)
Enqueue(id, mr) ==
    /\ DbFree
    /\ nevents < MaxEvents
    /\ nevents' = nevents + 1
    /\ jobs' = AddJob(jobs, NewJob(id, mr, now))
    /\ UNCHANGED <<dlq, config, now, wlock>>
    /\ UNCHANGED <<workerVars, cpc, cjob, ccfg, policyVars>>

(* delete: get_job, then delete_job *)
Delete(id) ==
    /\ DbFree
    /\ nevents < MaxEvents
    /\ nevents' = nevents + 1
    /\ id \in DOMAIN jobs
    /\ jobs' = DeleteJob(jobs, id)
    /\ UNCHANGED <<dlq, config, now, wlock>>
    /\ UNCHANGED <<workerVars, cpc, cjob, ccfg, policyVars>>

(* dlq remove: get_dlq_job, then remove_from_dlq *)
DlqRemove(id) ==
    /\ DbFree
    /\ nevents < MaxEvents
    /\ nevents' = nevents + 1
    /\ id \in DOMAIN dlq
    /\ dlq' = Remove(dlq, id)
    /\ UNCHANGED <<jobs, config, now, wlock>>
    /\ UNCHANGED <<workerVars, cpc, cjob, ccfg, policyVars>>

(* dlq retry: job = get_dlq_job(job_id); reset the fields *)
DlqRetryGet(c, id) ==
    /\ cpc[c] = "idle"
    /\ nevents < MaxEvents
    /\ nevents' = nevents + 1
    /\ id \in DOMAIN dlq
    /\ cjob' = [cjob EXCEPT ![c] =
                  [dlq[id].job EXCEPT !.state = PENDING, !.attempts = 0,
                                      !.error_message = NoError, !.next_retry_at = NULL]]
    /\ cpc' = [cpc EXCEPT ![c] = "retry_add"]
    /\ UNCHANGED <<dbVars, config, now, wlock, ccfg>>
    /\ UNCHANGED <<workerVars, policyVars>>

(* dlq retry: storage.add_job(job) *)
DlqRetryAdd(c) ==
    /\ cpc[c] = "retry_add"
    /\ DbFree
    /\ jobs' = AddJob(jobs, cjob[c])
    /\ cpc' = [cpc EXCEPT ![c] = "retry_remove"]
    /\ UNCHANGED <<dlq, config, now, wlock, cjob, ccfg, nevents>>
    /\ UNCHANGED <<workerVars, policyVars>>

(* dlq retry: storage.remove_from_dlq(job_id) *)
DlqRetryRemove(c) ==
    /\ cpc[c] = "retry_remove"
    /\ DbFree
    /\ dlq' = Remove(dlq, cjob[c].id)
    /\ cpc' = [cpc EXCEPT ![c] = "idle"]
    /\ cjob' = [cjob EXCEPT ![c] = NoJob]
    /\ UNCHANGED <<jobs, config, now, wlock, ccfg, nevents>>
    /\ UNCHANGED <<workerVars, policyVars>>

(* set_config: config = self.get_config(); config[key] = value *)
SetConfigRead(c, key, value) ==
    /\ cpc[c] = "idle"
    /\ nevents < MaxEvents
    /\ nevents' = nevents + 1
    /\ Readable(config)
    /\ ccfg' = [ccfg EXCEPT ![c] = (key :> value) @@ config]
    /\ cpc' = [cpc EXCEPT ![c] = "cfg_open"]
    /\ UNCHANGED <<dbVars, config, now, wlock, cjob>>
    /\ UNCHANGED <<workerVars, policyVars>>

(* set_config: open(self.config_path, "w") truncates the file *)
SetConfigOpen(c) ==
    /\ cpc[c] = "cfg_open"
    /\ config' = EmptyFile
    /\ cpc' = [cpc EXCEPT ![c] = "cfg_write"]
    /\ UNCHANGED <<dbVars, now, wlock, cjob, ccfg, nevents>>
    /\ UNCHANGED <<workerVars, policyVars>>

(* set_config: json.dump(config, f) and the close of the file *)
SetConfigWrite(c) ==
    /\ cpc[c] = "cfg_write"
    /\ config' = ccfg[c]
    /\ cpc' = [cpc EXCEPT ![c] = "idle"]
    /\ ccfg' = [ccfg EXCEPT ![c] = DefaultConfig]
    /\ UNCHANGED <<dbVars, now, wlock, cjob, nevents>>
    /\ UNCHANGED <<workerVars, policyVars>>

(* Time passes *)
Tick ==
    /\ \E d \in TickSteps :
        /\ now + d <= MaxTime
        /\ now' = now + d
    /\ UNCHANGED <<dbVars, config, wlock>>
    /\ UNCHANGED <<workerVars, clientVars, policyVars>>

----------------------------------------------------------------------------
Next ==
    \/ \E w \in Workers :
        \/ WClearExpired(w)
        \/ WStop(w)
        \/ Shutdown(w)
        \/ WGetReady(w)
        \/ WLockSelect(w)
        \/ WLockUpdate(w)
        \/ WNormalise(w)
        \/ WMarkProcessing(w)
        \/ WRunSuccess(w)
        \/ WRunFailure(w)
        \/ WFailureAgain(w)
        \/ WDlqDelete(w)
        \/ WDlqCommit(w)
        \/ WRelease(w)
        \/ Crash(w)
    \/ \E id \in JobIds :
        \/ \E mr \in JobRetryChoices : Enqueue(id, mr)
        \/ Delete(id)
        \/ DlqRemove(id)
        \/ \E c \in Clients : DlqRetryGet(c, id)
    \/ \E c \in Clients :
        \/ DlqRetryAdd(c)
        \/ DlqRetryRemove(c)
        \/ \E kv \in ConfigSettings : SetConfigRead(c, kv[1], kv[2])
        \/ SetConfigOpen(c)
        \/ SetConfigWrite(c)
    \/ Tick

Spec == Init /\ [][Next]_vars

----------------------------------------------------------------------------
(* The backoff calculation of _handle_job_failure on its own: the successive
   failures of one job (attempts = 1, 2, ...) under one configuration, any
   integers that `config set` stores *)

InitBackoff ==
    /\ SystemInit
    /\ pAttempts = 0
    /\ pBase \in BackoffBaseChoices
    /\ pMax \in BackoffMaxChoices
    /\ pDelay = 0
    /\ pPrev = 0

PolicyFailure ==
    /\ pAttempts < MaxPolicyAttempts
    /\ pAttempts' = pAttempts + 1
    /\ pPrev' = pDelay
    /\ pDelay' = Delay(pAttempts + 1, pBase, pMax)
    /\ UNCHANGED <<pBase, pMax, dbVars, config, now, wlock>>
    /\ UNCHANGED <<workerVars, clientVars>>

NextBackoff == PolicyFailure

SpecBackoff == InitBackoff /\ [][NextBackoff]_vars

----------------------------------------------------------------------------
(* Storage errors.  Every store call opens its own connection with a busy
   timeout of 10 seconds and raises sqlite3.OperationalError when the database
   stays locked, cannot be opened or cannot be written.  The error is raised
   by the first statement of the call; where it goes depends on where the call
   stands in Worker.run, _get_next_job and _execute_job. *)

StorageErrorText == "database is locked"

(* the worker leaves Worker.run through `except Exception` and `finally` *)
StopOnError(w) ==
    /\ pc' = [pc EXCEPT ![w] = "stopped"]
    /\ ready' = [ready EXCEPT ![w] = <<>>]
    /\ job' = [job EXCEPT ![w] = NoJob]
    /\ err' = [err EXCEPT ![w] = NoError]
    /\ raised' = [raised EXCEPT ![w] = FALSE]
    /\ ctime' = [ctime EXCEPT ![w] = 0]
    /\ UNCHANGED <<dbVars, wlock, txn>>

(* The Job object as _handle_job_failure has set it when its store call
   (update_job or move_to_dlq) is made *)
FailureVerdict(j, e) ==
    LET max_retries == CfgGet(config, "max_retries", DefaultMaxRetries)
        backoff_base == CfgGet(config, "backoff_base", DefaultBackoffBase)
        backoff_max == CfgGet(config, "backoff_max_seconds", DefaultBackoffMax)
    IN IF WillRetry(j.attempts, max_retries)
       THEN [j EXCEPT !.state = FAILED, !.error_message = e,
                      !.next_retry_at = Some(now + Delay(j.attempts, backoff_base, backoff_max))]
       ELSE [j EXCEPT !.state = DEAD, !.error_message = e]

(* The store call worker w is about to make raises.
     clear_expired_locks, get_ready_jobs, acquire_job_lock, and the update_job
       calls of _get_next_job and of the head of _execute_job are outside every
       try block of _execute_job: the exception reaches Worker.run;
     the update_job of the success branch is inside the try block: `except
       Exception` calls _handle_job_failure(job, str(e));
     the store call of _handle_job_failure: as any exception leaving it;
     release_job_lock in the finally block: the exception reaches Worker.run. *)
WStorageError(w) ==
    /\ nevents < MaxEvents
    /\ nevents' = nevents + 1
    /\ \/ /\ \/ pc[w] = "poll" /\ running[w]
             \/ pc[w] \in {"getready", "select", "update", "normalise", "markproc", "release"}
          /\ StopOnError(w)
       \/ /\ pc[w] = "run"
          /\ Raise(w, [job[w] EXCEPT !.state = COMPLETED, !.error_message = NoError],
                   TRUE, StorageErrorText)
          /\ UNCHANGED <<ready, ctime>>
       \/ /\ pc[w] = "run"
          /\ Readable(config)
          /\ \E o \in Outcomes :
                Raise(w, FailureVerdict(job[w], ErrorText(o)), o = "nonzero", StorageErrorText)
          /\ UNCHANGED <<ready, ctime>>
       \/ /\ pc[w] = "fail2"
          /\ Readable(config)
          /\ Raise(w, FailureVerdict(job[w], err[w]), FALSE, StorageErrorText)
          /\ UNCHANGED <<ready, ctime>>
    /\ UNCHANGED <<config, now, running>>
    /\ UNCHANGED <<cpc, cjob, ccfg, policyVars>>

(* The workers with storage errors, the enqueue and config commands, the clock *)
NextFaults ==
    \/ \E w \in Workers :
        \/ WClearExpired(w)
        \/ WStop(w)
        \/ Shutdown(w)
        \/ WGetReady(w)
        \/ WLockSelect(w)
        \/ WLockUpdate(w)
        \/ WNormalise(w)
        \/ WMarkProcessing(w)
        \/ WRunSuccess(w)
        \/ WRunFailure(w)
        \/ WFailureAgain(w)
        \/ WDlqDelete(w)
        \/ WDlqCommit(w)
        \/ WRelease(w)
        \/ WStorageError(w)
    \/ \E id \in JobIds : \E mr \in JobRetryChoices : Enqueue(id, mr)
    \/ \E c \in Clients :
        \/ \E kv \in ConfigSettings : SetConfigRead(c, kv[1], kv[2])
        \/ SetConfigOpen(c)
        \/ SetConfigWrite(c)
    \/ Tick

SpecFaults == Init /\ [][NextFaults]_vars

----------------------------------------------------------------------------
(* Shutdown of running workers.  The configuration is the default one or one
   an operator has set max_retries = 1 in; jobs are enqueued, signals arrive.
   Each worker is a process of its own that keeps running: its next step is
   taken eventually (a store call waits at most for the writer ahead of it,
   subprocess.run ends at the latest with its timeout). *)

StopConfigs == {DefaultConfig, [DefaultConfig EXCEPT !.max_retries = 1]}

InitStop ==
    /\ jobs = <<>>
    /\ dlq = <<>>
    /\ config \in StopConfigs
    /\ now = 1
    /\ wlock = 0
    /\ txn = [w \in Workers |-> NoTxn]
    /\ pc = [w \in Workers |-> "poll"]
    /\ running = [w \in Workers |-> TRUE]
    /\ ready = [w \in Workers |-> <<>>]
    /\ job = [w \in Workers |-> NoJob]
    /\ ctime = [w \in Workers |-> 0]
    /\ err = [w \in Workers |-> NoError]
    /\ raised = [w \in Workers |-> FALSE]
    /\ cpc = [c \in Clients |-> "idle"]
    /\ cjob = [c \in Clients |-> NoJob]
    /\ ccfg = [c \in Clients |-> DefaultConfig]
    /\ nevents = 0
    /\ pAttempts = 0
    /\ pBase = DefaultBackoffBase
    /\ pMax = DefaultBackoffMax
    /\ pDelay = 0
    /\ pPrev = 0

(* The next step of worker w's own code *)
WorkerStep(w) ==
    \/ WClearExpired(w)
    \/ WStop(w)
    \/ WGetReady(w)
    \/ WLockSelect(w)
    \/ WLockUpdate(w)
    \/ WNormalise(w)
    \/ WMarkProcessing(w)
    \/ WRunSuccess(w)
    \/ WRunFailure(w)
    \/ WFailureAgain(w)
    \/ WDlqDelete(w)
    \/ WDlqCommit(w)
    \/ WRelease(w)

NextStop ==
    \/ \E w \in Workers :
        \/ WorkerStep(w)
        \/ Shutdown(w)
    \/ \E id \in JobIds : \E mr \in JobRetryChoices : Enqueue(id, mr)
    \/ Tick

SpecStop ==
    /\ InitStop
    /\ [][NextStop]_vars
    /\ \A w \in Workers : WF_vars(WorkerStep(w))

----------------------------------------------------------------------------
(* The end of a lease.  A pending job was claimed at time 1 by a worker that
   was killed before it marked the job processing, so the row is still locked
   until 1 + LeaseSeconds, or the job was never claimed, or the worker that
   claimed it at time 1 is still running its command; the workers of this
   specification poll around the time the lease runs out. *)

MaxLateness == 1

LeaseStart == 1

LeaseLocks == {0, LeaseStart + LeaseSeconds}

(* The worker whose command is still running, 0 when there is none *)
LeaseExecutors == {0} \cup Workers

InitLease ==
    /\ \E lu \in LeaseLocks : \E mr \in JobRetryChoices : \E x \in LeaseExecutors :
          \E jid \in JobIds :
          /\ x # 0 => lu = LeaseStart + LeaseSeconds
          /\ jobs = [id \in JobIds |->
                      [state |-> IF x # 0 /\ id = jid THEN PROCESSING ELSE PENDING,
                       attempts |-> IF x # 0 /\ id = jid THEN 1 ELSE 0,
                       max_retries |-> mr,
                       created_at |-> LeaseStart, next_retry_at |-> NULL,
                       error_message |-> NoError,
                       locked_until |-> IF x = 0 \/ id = jid THEN lu ELSE 0]]
          /\ pc = [w \in Workers |-> IF w = x THEN "run" ELSE "poll"]
          /\ job = [w \in Workers |-> IF w = x THEN RowToJob(jid, jobs[jid]) ELSE NoJob]
          /\ ctime = [w \in Workers |-> IF w = x THEN LeaseStart ELSE 0]
    /\ dlq = <<>>
    /\ config = DefaultConfig
    /\ now = LeaseStart + LeaseSeconds - 1
    /\ wlock = 0
    /\ txn = [w \in Workers |-> NoTxn]
    /\ running = [w \in Workers |-> TRUE]
    /\ ready = [w \in Workers |-> <<>>]
    /\ err = [w \in Workers |-> NoError]
    /\ raised = [w \in Workers |-> FALSE]
    /\ cpc = [c \in Clients |-> "idle"]
    /\ cjob = [c \in Clients |-> NoJob]
    /\ ccfg = [c \in Clients |-> DefaultConfig]
    /\ nevents = 0
    /\ pAttempts = 0
    /\ pBase = DefaultBackoffBase
    /\ pMax = DefaultBackoffMax
    /\ pDelay = 0
    /\ pPrev = 0

(* Time passes, up to MaxLateness after the end of the lease.  A command that
   is running is ended by subprocess.run's timeout ExecTimeout after its start,
   taken here as the moment the lock was acquired. *)
LeaseTick ==
    /\ now < LeaseStart + LeaseSeconds + MaxLateness
    /\ \A w \in Workers : pc[w] = "run" => now < ctime[w] + ExecTimeout
    /\ now' = now + 1
    /\ UNCHANGED <<dbVars, config, wlock>>
    /\ UNCHANGED <<workerVars, clientVars, policyVars>>

NextLease ==
    \/ \E w \in Workers :
        \/ WClearExpired(w)
        \/ WGetReady(w)
        \/ WLockSelect(w)
        \/ WLockUpdate(w)
        \/ WNormalise(w)
        \/ WMarkProcessing(w)
        \/ WRunSuccess(w)
        \/ WRunFailure(w)
        \/ WRelease(w)
    \/ \E id \in JobIds : Delete(id)
    \/ LeaseTick

SpecLease == InitLease /\ [][NextLease]_vars

----------------------------------------------------------------------------
(* get_ready_jobs on its own: the workers call it on a table of up to
   NumReadyRows rows.  A row is what add_job has written for a Job given to
   enqueue as JSON (any state; next_retry_at is not among the columns add_job
   writes, so it is NULL), or what _handle_job_failure has written (failed,
   with a next_retry_at before, at or after the present time). *)

NumReadyRows == 2

ReadyIds == 1..NumReadyRows

ReadyRows ==
    {[state |-> st, attempts |-> 0, max_retries |-> DefaultMaxRetries, created_at |-> t,
      next_retry_at |-> NULL, error_message |-> NoError, locked_until |-> 0] :
        st \in {PENDING, PROCESSING, COMPLETED, FAILED, DEAD}, t \in 1..MaxTime}
    \cup
    {[state |-> FAILED, attempts |-> 1, max_retries |-> DefaultMaxRetries, created_at |-> t,
      next_retry_at |-> Some(r), error_message |-> ErrorText("nonzero"), locked_until |-> 0] :
        t \in 1..MaxTime, r \in (MaxTime - 1)..(MaxTime + 1)}

ReadyTables ==
    UNION {[ids -> ReadyRows] : ids \in SUBSET ReadyIds}

InitReady ==
    /\ jobs \in ReadyTables
    /\ dlq = <<>>
    /\ config = DefaultConfig
    /\ now = MaxTime
    /\ wlock = 0
    /\ txn = [w \in Workers |-> NoTxn]
    /\ pc = [w \in Workers |-> "getready"]
    /\ running = [w \in Workers |-> TRUE]
    /\ ready = [w \in Workers |-> <<>>]
    /\ job = [w \in Workers |-> NoJob]
    /\ ctime = [w \in Workers |-> 0]
    /\ err = [w \in Workers |-> NoError]
    /\ raised = [w \in Workers |-> FALSE]
    /\ cpc = [c \in Clients |-> "idle"]
    /\ cjob = [c \in Clients |-> NoJob]
    /\ ccfg = [c \in Clients |-> DefaultConfig]
    /\ nevents = 0
    /\ pAttempts = 0
    /\ pBase = DefaultBackoffBase
    /\ pMax = DefaultBackoffMax
    /\ pDelay = 0
    /\ pPrev = 0

NextReady == \E w \in Workers : WGetReady(w)

SpecReady == InitReady /\ [][NextReady]_vars

----------------------------------------------------------------------------
(* add_job and get_job on their own: enqueue with a JSON job description *)

(* The Job objects Job.from_dict can build from the JSON given to enqueue *)
UpsertJobs ==
    [id : JobIds,
     state : {PENDING, PROCESSING, COMPLETED, FAILED, DEAD},
     attempts : 0..1,
     max_retries : JobRetryChoices,
     created_at : {1},
     next_retry_at : {NULL, Some(1), Some(MaxTime)},
     error_message : {NoError, "exit"}]

InitUpsert ==
    /\ SystemInit
    /\ pAttempts = 0
    /\ pBase = DefaultBackoffBase
    /\ pMax = DefaultBackoffMax
    /\ pDelay = 0
    /\ pPrev = 0

(* enqueue '{"id": ..., ...}': job = Job.from_dict(data); storage.add_job(job) *)
EnqueueJson(c, j) ==
    /\ DbFree
    /\ cjob' = [cjob EXCEPT ![c] = j]
    /\ jobs' = AddJob(jobs, j)
    /\ UNCHANGED <<dlq, config, now, wlock>>
    /\ UNCHANGED <<workerVars, cpc, ccfg, nevents, policyVars>>

(* get_job: the row of the id as a Job object, None when there is none *)
GetJob(js, id) == IF id \in DOMAIN js THEN RowToJob(id, js[id]) ELSE NoJob

NextUpsert == \E c \in Clients : \E j \in UpsertJobs : EnqueueJson(c, j)

SpecUpsert == InitUpsert /\ [][NextUpsert]_vars

----------------------------------------------------------------------------
(* set_config called by several commands at once: each `queuectl config set`
   is a process of its own, and nothing serialises their reads and writes of
   config.json *)

NumConfigClients == 2

ConfigClients == 1..NumConfigClients

InitConfig ==
    /\ jobs = <<>>
    /\ dlq = <<>>
    /\ config = DefaultConfig
    /\ now = 1
    /\ wlock = 0
    /\ txn = [w \in Workers |-> NoTxn]
    /\ pc = [w \in Workers |-> "poll"]
    /\ running = [w \in Workers |-> TRUE]
    /\ ready = [w \in Workers |-> <<>>]
    /\ job = [w \in Workers |-> NoJob]
    /\ ctime = [w \in Workers |-> 0]
    /\ err = [w \in Workers |-> NoError]
    /\ raised = [w \in Workers |-> FALSE]
    /\ cpc = [c \in ConfigClients |-> "idle"]
    /\ cjob = [c \in ConfigClients |-> NoJob]
    /\ ccfg = [c \in ConfigClients |-> DefaultConfig]
    /\ nevents = 0
    /\ pAttempts = 0
    /\ pBase = DefaultBackoffBase
    /\ pMax = DefaultBackoffMax
    /\ pDelay = 0
    /\ pPrev = 0

NextConfig ==
    \E c \in ConfigClients :
        \/ \E s \in ConfigSettings : SetConfigRead(c, s[1], s[2])
        \/ SetConfigOpen(c)
        \/ SetConfigWrite(c)

SpecConfig == InitConfig /\ [][NextConfig]_vars

----------------------------------------------------------------------------
(* Properties *)

(* Worker w has returned True from acquire_job_lock(id) and has not yet run
   its release_job_lock; the lease it was granted has not expired, and the row
   is still locked *)
HoldingPcs == {"normalise", "markproc", "run", "fail2", "dlq_delete", "dlq_commit", "release"}

Granted(w, id) ==
    /\ pc[w] \in HoldingPcs
    /\ job[w].id = id
    /\ ctime[w] + LeaseSeconds > now
    /\ id \in DOMAIN jobs
    /\ jobs[id].locked_until > now

(* C1. Lock exclusivity: of the acquire_job_lock calls of several workers on
   one job id, at most one has returned success while the granted lease is
   unexpired and unreleased. *)
C1_LockExclusivity ==
    \A id \in JobIds : \A w1, w2 \in Workers :
        Granted(w1, id) /\ Granted(w2, id) => w1 = w2

(* Worker w is executing its job: between the update to processing and the
   recording of the outcome *)
Executing(w) == pc[w] \in {"run", "fail2", "dlq_delete", "dlq_commit"}

(* C2. Scenario C: no two workers are executing the same job id at the same
   time within an unexpired lease; of two concurrent claim attempts exactly one
   leads to an execution. *)
C2_SingleExecutor ==
    \A w1, w2 \in Workers :
        /\ Executing(w1) /\ Executing(w2)
        /\ job[w1].id = job[w2].id
        /\ ctime[w1] + LeaseSeconds > now
        /\ ctime[w2] + LeaseSeconds > now
        => w1 = w2

(* C3. Mutual exclusion of residence: every job id is in at most one of the
   live table and the dead-letter collection. *)
C3_ResidenceExclusive == DOMAIN jobs \cap DOMAIN dlq = {}

(* This step is a step of worker w inside move_to_dlq: the call (the dead
   verdict has set job.state), a later statement, or the kill of the process
   with the transaction open *)
MoveToDlqStep(w) ==
    /\ pc'[w] # pc[w]
    /\ \/ pc[w] \in {"run", "fail2"} /\ pc'[w] # "crashed" /\ job'[w].state = DEAD
       \/ pc[w] \in {"dlq_delete", "dlq_commit"}

(* C4. move_to_dlq is atomic: every step of it, a crash or an error included,
   either shows no change of the two tables, or shows the dead-letter record
   inserted and the live row gone. *)
C4_MoveToDlqAtomic ==
    [][\A w \in Workers :
         MoveToDlqStep(w) =>
            \/ UNCHANGED dbVars
            \/ /\ job[w].id \in DOMAIN dlq'
               /\ job[w].id \notin DOMAIN jobs'
               /\ dlq'[job[w].id].job = job[w]]_vars

(* C4 witness: a worker is between the DELETE and the commit of move_to_dlq,
   and the job is still only in the live table *)
C4_Witness ==
    \E w \in Workers :
        /\ pc[w] = "dlq_commit"
        /\ job[w].id \in DOMAIN jobs
        /\ job[w].id \notin DOMAIN dlq

(* C5. Every job in the live table has attempts <= its own max_retries. *)
C5_AttemptsWithinOwnMax ==
    \A id \in DOMAIN jobs : jobs[id].attempts <= jobs[id].max_retries

(* C6. Scenario B generalised: a job enqueued with max_retries = N is Failed in
   the live table only after fewer than N failures, and is dead-lettered at
   attempts = N and at no other value. *)
C6_DeadAtOwnMax ==
    /\ \A id \in DOMAIN jobs :
          jobs[id].state = FAILED => jobs[id].attempts < jobs[id].max_retries
    /\ \A id \in DOMAIN dlq :
          dlq[id].job.attempts = dlq[id].job.max_retries

(* This step is worker w's _handle_job_failure of a failed execution *)
HandlingStep(w) ==
    /\ pc[w] \in {"run", "fail2"}
    /\ pc'[w] \notin {pc[w], "crashed"}
    /\ job'[w].state # COMPLETED

(* The error text _handle_job_failure was called with *)
PassedText(w, text) ==
    IF pc[w] = "fail2" THEN text = err[w] ELSE text \in {ErrorText(o) : o \in Outcomes}

(* This step starts an execution: processing, attempts one higher, persisted *)
StartsExecution(w) ==
    (pc[w] = "markproc" /\ pc'[w] = "run") =>
        /\ job'[w].attempts = job[w].attempts + 1
        /\ job[w].id \in DOMAIN jobs =>
              /\ jobs'[job[w].id].attempts = job[w].attempts + 1
              /\ jobs'[job[w].id].state = PROCESSING

(* C7. Retry verdict: a failure handled with attempts (already incremented at
   the start of the execution) < max_retries of the configuration leaves the
   row in the live table, Failed, with those attempts, the error text passed
   in, and next_retry_at = now + min(backoff_base^(attempts-1),
   backoff_max_seconds). *)
C7_RetryVerdict ==
    [][\A w \in Workers :
         /\ StartsExecution(w)
         /\ (/\ HandlingStep(w)
             /\ Readable(config)
             /\ job[w].attempts < config.max_retries)
            => /\ pc'[w] = "release"
               /\ ~raised'[w]
               /\ dlq' = dlq
               /\ DOMAIN jobs' = DOMAIN jobs
               /\ job[w].id \in DOMAIN jobs =>
                    LET row == jobs'[job[w].id]
                        d == Pow(config.backoff_base, job[w].attempts - 1)
                    IN /\ row.state = FAILED
                       /\ row.attempts = job[w].attempts
                       /\ PassedText(w, row.error_message)
                       /\ row.next_retry_at =
                            Some(now + IF d <= config.backoff_max_seconds
                                       THEN d ELSE config.backoff_max_seconds)]_vars

(* C7 witness: a job failed for the second time and waits for its retry *)
C7_Witness ==
    \E id \in DOMAIN jobs :
        /\ jobs[id].state = FAILED
        /\ jobs[id].attempts = 2
        /\ jobs[id].error_message = "stderr"
        /\ jobs[id].next_retry_at # NULL
        /\ jobs[id].next_retry_at[1] > now

(* C8 as stated: for every configuration the store accepts, the delay is
   non-decreasing in attempts, is at most backoff_max_seconds, and is 1 at
   attempts = 1 when backoff_base = 2. *)
C8_BackoffAnyConfig ==
    /\ pAttempts >= 2 => pPrev <= pDelay
    /\ pAttempts >= 1 => pDelay <= pMax
    /\ (pAttempts = 1 /\ pBase = 2) => pDelay = 1

(* C8 amended: the delay is at most backoff_max_seconds for every
   configuration; it is non-decreasing in attempts when backoff_base >= 1; it
   is 1 at attempts = 1 when backoff_base = 2 and backoff_max_seconds >= 1. *)
C8_BackoffSaneConfig ==
    /\ (pAttempts >= 2 /\ pBase >= 1) => pPrev <= pDelay
    /\ pAttempts >= 1 => pDelay <= pMax
    /\ (pAttempts = 1 /\ pBase = 2 /\ pMax >= 1) => pDelay = 1

(* C8 witness: the third failure under base 2, where the cap of 2 seconds
   holds the delay down *)
C8_Witness ==
    /\ pAttempts = 3
    /\ pBase = 2
    /\ pMax = 2
    /\ pPrev = 2
    /\ pDelay = 2

(* C9. Scenario D: every retry decision is taken against the configuration
   file as it is at the decision, and a completed set_config(key, value) has
   left value under key in the file: a value set before a failure decides
   that failure, with no restart and nothing cached. *)
C9_ConfigReadFresh ==
    [][/\ \A w \in Workers :
            (HandlingStep(w) /\ Readable(config)) =>
                IF job[w].attempts < config.max_retries
                THEN /\ job'[w].state = FAILED
                     /\ job'[w].next_retry_at =
                          Some(now + Min(Pow(config.backoff_base, job[w].attempts - 1),
                                         config.backoff_max_seconds))
                ELSE /\ job'[w].state = DEAD
                     /\ pc'[w] = "dlq_delete" =>
                          \E i \in 1..Len(txn'[w]) :
                              /\ txn'[w][i].op = "insert_dlq"
                              /\ txn'[w][i].rec.reason.max = config.max_retries
       /\ \A c \in Clients :
            /\ (cpc[c] = "idle" /\ cpc'[c] = "cfg_open") =>
                  \E kv \in ConfigSettings :
                      /\ ccfg'[c][kv[1]] = kv[2]
                      /\ \A k \in DOMAIN config \ {kv[1]} : ccfg'[c][k] = config[k]
            /\ (cpc[c] = "cfg_write" /\ cpc'[c] = "idle") => config' = ccfg[c]]_vars

(* C9 witness: a job was dead-lettered against max_retries = 1, a value that
   only set_config can have put into the file *)
C9_Witness ==
    \E id \in DOMAIN dlq :
        /\ dlq[id].reason.max = 1
        /\ dlq[id].job.attempts = 1
        /\ dlq[id].job.max_retries = DefaultMaxRetries

(* C10. Scenario A generalised: an execution that ends with exit code 0 leaves
   the row in the live table Completed, with attempts one higher than the job
   had when the execution started, and error_message cleared. *)
C10_SuccessCompletes ==
    [][\A w \in Workers :
         /\ StartsExecution(w)
         /\ (pc[w] = "run" /\ pc'[w] = "release" /\ job'[w].state = COMPLETED) =>
              /\ dlq' = dlq
              /\ DOMAIN jobs' = DOMAIN jobs
              /\ job[w].id \in DOMAIN jobs =>
                    /\ jobs'[job[w].id].state = COMPLETED
                    /\ jobs'[job[w].id].attempts = job[w].attempts
                    /\ jobs'[job[w].id].error_message = NoError]_vars

(* C10 witness: a job that failed once and then succeeded *)
C10_Witness ==
    \E id \in DOMAIN jobs :
        /\ jobs[id].state = COMPLETED
        /\ jobs[id].attempts = 2
        /\ jobs[id].error_message = NoError

(* This step is taken by no client command: enqueue, delete and dlq retry are
   the commands that write the live table *)
NoClientWrite == nevents' = nevents /\ cpc' = cpc

(* C11. Completed is terminal: no step of a worker changes the state or the
   attempts of a live row that is Completed, removes it, or starts an
   execution of it. *)
C11_CompletedTerminal ==
    [][\A id \in DOMAIN jobs :
         (jobs[id].state = COMPLETED /\ NoClientWrite) =>
            /\ id \in DOMAIN jobs'
            /\ jobs'[id].state = COMPLETED
            /\ jobs'[id].attempts = jobs[id].attempts
            /\ \A w \in Workers :
                 ~(pc[w] = "markproc" /\ pc'[w] = "run" /\ job[w].id = id)]_vars

(* Worker w leaves the span in which it holds a granted lock: it goes back to
   polling or stops (a killed process runs no finally block and is not a case
   of the obligation) *)
LeavesHolding(w) ==
    /\ pc[w] \in HoldingPcs
    /\ pc'[w] \in {"poll", "stopped"}

(* C12. Guaranteed release: every path on which a worker that was granted a
   lock returns to polling or stops, an error at any step after the grant
   included, goes through release_job_lock. *)
C12_ReleaseOnEveryPath ==
    [][\A w \in Workers : LeavesHolding(w) => pc[w] = "release"]_vars

(* C13. A storage error raised by a store call of the poll cycle never stops
   the worker. *)
C13_StorageErrorContained ==
    [][\A w \in Workers : WStorageError(w) => pc'[w] # "stopped"]_vars

(* This step is worker w's handling of an execution error: subprocess.run has
   ended with a nonzero exit code or a timeout *)
ExecutionErrorStep(w) ==
    /\ pc[w] = "run"
    /\ pc'[w] \notin {"run", "crashed"}
    /\ job'[w].state # COMPLETED

(* C14. An execution error is routed through the retry decision once and never
   terminates the worker: its handling ends with the job Failed and scheduled,
   or on its way into the dead-letter table, with no second call of the handler
   and no exception on its way to Worker.run. *)
C14_ExecutionErrorHandledOnce ==
    [][\A w \in Workers :
         ExecutionErrorStep(w) =>
            /\ pc'[w] \in {"release", "dlq_delete"}
            /\ ~raised'[w]
            /\ job'[w].state \in {FAILED, DEAD}
            /\ job'[w].state = FAILED => job'[w].next_retry_at # NULL]_vars

(* C15. A retry decision that finds the configuration file unparsable is taken
   against the built-in defaults: the job is Failed with the default backoff,
   or dead, and no exception leaves the handler. *)
C15_ConfigFallback ==
    [][\A w \in Workers :
         (HandlingStep(w) /\ ~Readable(config)) =>
            /\ pc'[w] \in {"release", "dlq_delete"}
            /\ ~raised'[w]
            /\ IF job[w].attempts < DefaultMaxRetries
               THEN /\ job'[w].state = FAILED
                    /\ job'[w].next_retry_at =
                         Some(now + Min(Pow(DefaultBackoffBase, job[w].attempts - 1),
                                        DefaultBackoffMax))
               ELSE job'[w].state = DEAD]_vars

(* Worker w claims a job: acquire_job_lock returns True *)
ClaimStep(w) == pc[w] = "update" /\ pc'[w] \in {"normalise", "markproc"}

(* The signal handler only sets the flag, and the worker stops only where the
   loop condition is evaluated or where _execute_job has ended (its finally
   block has run release_job_lock) *)
StopIsCooperative(w) ==
    /\ (running[w] /\ ~running'[w]) =>
          /\ pc'[w] = pc[w]
          /\ job'[w] = job[w]
          /\ UNCHANGED <<dbVars, txn>>
    /\ (pc[w] # "stopped" /\ pc'[w] = "stopped") =>
          \/ pc[w] = "poll" /\ ~running[w]
          \/ pc[w] = "release"

C17_RequeueResets ==
    [][\A c \in Clients :
         /\ (cpc[c] = "idle" /\ cpc'[c] = "retry_add") =>
               /\ cjob'[c].id \in DOMAIN dlq
               /\ cjob'[c].max_retries = dlq[cjob'[c].id].job.max_retries
         /\ (cpc[c] = "retry_add" /\ cpc'[c] = "retry_remove") =>
               /\ cjob[c].id \in DOMAIN jobs'
               /\ jobs'[cjob[c].id].state = PENDING
               /\ jobs'[cjob[c].id].attempts = 0
               /\ jobs'[cjob[c].id].error_message = NoError
               /\ jobs'[cjob[c].id].next_retry_at = NULL
               /\ dlq' = dlq
         /\ (cpc[c] = "retry_remove" /\ cpc'[c] = "idle") =>
               /\ cjob[c].id \notin DOMAIN dlq'
               /\ jobs' = jobs]_vars

(* C17 witness: a worker has just dead-lettered the job (it still holds the
   dead Job object) and dlq retry has run to its end: the job is back in the
   live table, reset, and the dead-letter table no longer has it *)
C17_Witness ==
    \E w \in Workers :
        /\ pc[w] = "release"
        /\ job[w].state = DEAD
        /\ job[w].id \notin DOMAIN dlq
        /\ job[w].id \in DOMAIN jobs
        /\ jobs[job[w].id].state = PENDING
        /\ jobs[job[w].id].attempts = 0
        /\ jobs[job[w].id].error_message = NoError
        /\ jobs[job[w].id].next_retry_at = NULL
        /\ \A c \in Clients : cpc[c] = "idle"

(* This step is the SELECT and the comparison of worker w's acquire_job_lock *)
AcquireDecision(w) ==
    /\ pc[w] = "select"
    /\ pc'[w] # "crashed"
    /\ pc'[w] # "select" \/ ready'[w] # ready[w]

(* C18. acquire_job_lock on an existing job succeeds exactly when its
   locked_until <= now, the boundary locked_until = now and the unlocked value
   0 included, and then sets locked_until = now + duration; otherwise, and on
   an absent id, it returns False and changes no row. *)
C18_AcquireIffExpired ==
    [][\A w \in Workers :
         /\ AcquireDecision(w) =>
              LET id == Head(ready[w]).id IN
                IF id \in DOMAIN jobs /\ jobs[id].locked_until <= now
                THEN pc'[w] = "update" /\ ctime'[w] = now
                ELSE pc'[w] # "update" /\ jobs' = jobs
         /\ (ClaimStep(w) /\ job'[w].id \in DOMAIN jobs) =>
              jobs'[job'[w].id].locked_until = ctime[w] + LeaseSeconds]_vars

(* This step is worker w's release_job_lock *)
ReleaseStep(w) == pc[w] = "release" /\ pc'[w] \in {"poll", "stopped"}

(* C19. Lock protocol: acquire_job_lock on an existing unlocked job succeeds
   and locks the row for the lease; a call that finds the row locked, the
   lease not expired, returns False and changes nothing; release_job_lock
   unlocks the row whatever is left of the lease, so that the next call
   succeeds. *)
C19_LockProtocol ==
    [][\A w \in Workers :
         /\ AcquireDecision(w) =>
              LET id == Head(ready[w]).id IN
                /\ (id \in DOMAIN jobs /\ jobs[id].locked_until = 0) =>
                      pc'[w] = "update" /\ ctime'[w] = now
                /\ (id \in DOMAIN jobs /\ jobs[id].locked_until > now) =>
                      pc'[w] # "update" /\ jobs' = jobs
         /\ (ClaimStep(w) /\ job'[w].id \in DOMAIN jobs) =>
              /\ jobs'[job'[w].id].locked_until = ctime[w] + LeaseSeconds
              /\ jobs'[job'[w].id].locked_until > now
         /\ (ReleaseStep(w) /\ job[w].id \in DOMAIN jobs) =>
              jobs'[job[w].id].locked_until = 0]_vars

(* C19 witness: a job that was claimed, executed and released is claimed
   again, long before the first lease would have run out *)
C19_Witness ==
    \E w \in Workers :
        /\ pc[w] = "markproc"
        /\ job[w].attempts = 1
        /\ job[w].id \in DOMAIN jobs
        /\ jobs[job[w].id].attempts = 1
        /\ jobs[job[w].id].locked_until = ctime[w] + LeaseSeconds
        /\ now < LeaseSeconds

(* The jobs GetReady is specified to return: the Pending ones, and the Failed
   ones whose next_retry_at is absent or has passed *)
ReadyGroup(js, t) ==
    {id \in DOMAIN js :
        \/ js[id].state = PENDING
        \/ /\ js[id].state = FAILED
           /\ js[id].next_retry_at = NULL \/ js[id].next_retry_at[1] <= t}

(* C20. What get_ready_jobs has returned to a worker is exactly the ready
   group of the table, each job once. *)
C20_ReadyExact ==
    \A w \in Workers :
        pc[w] # "getready" =>
            /\ {ready[w][i].id : i \in 1..Len(ready[w])} = ReadyGroup(jobs, now)
            /\ Len(ready[w]) = Cardinality(ReadyGroup(jobs, now))

(* C21. Ordering of get_ready_jobs: in what it has returned to a worker every
   Pending job precedes every Failed one, and the jobs of each group are in
   ascending created_at order. *)
C21_ReadyOrdered ==
    \A w \in Workers :
        pc[w] # "getready" =>
            \A i, k \in 1..Len(ready[w]) :
                i < k =>
                    /\ ready[w][i].state = FAILED => ready[w][k].state = FAILED
                    /\ ready[w][i].state = ready[w][k].state =>
                          ready[w][i].created_at <= ready[w][k].created_at

(* C22. Upsert round trip: after add_job(job), for a new id or one already
   present, get_job(job.id) returns a job with the id, state, attempts,
   max_retries, next_retry_at and error_message of the job passed in. *)
C22_UpsertRoundTrip ==
    \A c \in Clients :
        cjob[c] # NoJob =>
            LET got == GetJob(jobs, cjob[c].id) IN
                /\ got.id = cjob[c].id
                /\ got.state = cjob[c].state
                /\ got.attempts = cjob[c].attempts
                /\ got.max_retries = cjob[c].max_retries
                /\ got.next_retry_at = cjob[c].next_retry_at
                /\ got.error_message = cjob[c].error_message

(* the live row of id is Failed and its retry time is still ahead *)
RetryPending(id) ==
    /\ id \in DOMAIN jobs
    /\ jobs[id].state = FAILED
    /\ jobs[id].next_retry_at # NULL
    /\ jobs[id].next_retry_at[1] > now

(* C23. A Failed job is never executed before its scheduled retry time: no
   worker marks a job Processing, and none normalises it to Pending, while the
   job's live row is Failed with next_retry_at > now. *)
C23_NoEarlyRetry ==
    [][\A w \in Workers :
          (pc[w] \in {"normalise", "markproc"} /\ pc'[w] # pc[w]) =>
              ~RetryPending(job[w].id)]_vars

(* C24. attempts counts execution starts: every execution start of a live job
   raises the stored attempts by exactly 1, and no write of a worker lowers the
   stored attempts of a row. *)
C24_AttemptsCountStarts ==
    [][NoClientWrite =>
         \A id \in DOMAIN jobs :
            /\ id \in DOMAIN jobs' => jobs'[id].attempts >= jobs[id].attempts
            /\ \A w \in Workers :
                 (pc[w] = "markproc" /\ pc'[w] = "run" /\ job[w].id = id) =>
                     jobs'[id].attempts = jobs[id].attempts + 1]_vars

(* C25. next_retry_at invariant: a live job has a next_retry_at only if its
   state is Failed, and the snapshot of a dead job in the dead-letter table has
   none. *)
C25_RetryTimeOnlyWhenFailed ==
    /\ \A id \in DOMAIN jobs :
          jobs[id].next_retry_at # NULL => jobs[id].state = FAILED
    /\ \A id \in DOMAIN dlq : dlq[id].job.next_retry_at = NULL

(* C26. Normalisation only by the lock holder: a worker that turns a Failed
   live row back to Pending holds the job's unexpired lock at that step, and no
   other worker is normalising the same row for the same retry. *)
C26_NormaliseByHolder ==
    [][\A w \in Workers :
          (/\ pc[w] = "normalise" /\ pc'[w] = "markproc"
           /\ job[w].id \in DOMAIN jobs
           /\ jobs[job[w].id].state = FAILED) =>
              /\ Granted(w, job[w].id)
              /\ \A v \in Workers \ {w} :
                    ~(/\ pc[v] = "normalise"
                      /\ job[v].id = job[w].id
                      /\ job[v].next_retry_at = job[w].next_retry_at)]_vars

(* Worker w has claimed job id and not yet released it, and the row still
   carries the lock of that claim *)
HoldsLease(w, id) ==
    /\ pc[w] \in {"normalise", "markproc", "run", "release"}
    /\ job[w].id = id
    /\ id \in DOMAIN jobs
    /\ jobs[id].locked_until = ctime[w] + LeaseSeconds

(* C27. Lease covers execution: for every job a worker has claimed and is
   executing, the job's locked_until stays > now until that worker's
   release_job_lock, so that no second worker's acquire_job_lock succeeds on
   the job in between. *)
C27_LeaseCoversExecution ==
    /\ [](\A w \in Workers : \A id \in JobIds :
             HoldsLease(w, id) => jobs[id].locked_until > now)
    /\ [][\A w, v \in Workers : \A id \in JobIds :
             (HoldsLease(w, id) /\ v # w /\ pc[v] = "select" /\ Head(ready[v]).id = id) =>
                 pc'[v] # "update"]_vars

(* C28. Dead is transient: no row of the live table is in state Dead; every
   record of the dead-letter table is a snapshot with state Dead and the last
   error message; and the commit of move_to_dlq shows the record stored and the
   live row gone in one step. *)
C28_DeadIsTransient ==
    /\ [](\A id \in DOMAIN jobs : jobs[id].state # DEAD)
    /\ [](\A id \in DOMAIN dlq :
             /\ dlq[id].job.state = DEAD
             /\ dlq[id].job.error_message = dlq[id].reason.err)
    /\ [][\A w \in Workers :
             (pc[w] = "dlq_commit" /\ pc'[w] = "release") =>
                 /\ job[w].id \in DOMAIN dlq'
                 /\ job[w].id \notin DOMAIN jobs'
                 /\ job[w].id \notin DOMAIN dlq]_vars

(* C28 witness: a job has died: its snapshot, Dead and with the error text of
   the failed run, is in the dead-letter table and its live row is gone *)
C28_Witness ==
    \E id \in DOMAIN dlq :
        /\ id \notin DOMAIN jobs
        /\ dlq[id].job.state = DEAD
        /\ dlq[id].job.error_message = ErrorText("nonzero")
        /\ \E w \in Workers : pc[w] = "release" /\ job[w].id = id

(* The result of acquire_job_lock(id) at time t on table js, and the
   locked_until it leaves in the row *)
AcquireResult(js, id, t) ==
    IF id \in DOMAIN js /\ LockIsFree(js[id].locked_until, t)
    THEN [ok |-> TRUE, locked_until |-> t + LeaseSeconds]
    ELSE [ok |-> FALSE,
          locked_until |-> IF id \in DOMAIN js THEN js[id].locked_until ELSE 0]

(* C29. clear_expired_locks is pure bookkeeping: it resets only locked_until
   values that are <= now, changes no other column and no unexpired lock, and
   the result and resulting locked_until of a following acquire_job_lock are
   the same whether or not it ran first. *)
C29_ClearIsBookkeeping ==
    LET cl == ClearExpiredLocks(jobs, now) IN
        /\ DOMAIN cl = DOMAIN jobs
        /\ \A id \in DOMAIN jobs :
              /\ cl[id] # jobs[id] =>
                    /\ jobs[id].locked_until <= now
                    /\ cl[id] = [jobs[id] EXCEPT !.locked_until = 0]
              /\ jobs[id].locked_until > now => cl[id] = jobs[id]
              /\ AcquireResult(cl, id, now).ok = AcquireResult(jobs, id, now).ok
              /\ AcquireResult(cl, id, now).ok =>
                    AcquireResult(cl, id, now).locked_until =
                        AcquireResult(jobs, id, now).locked_until

(* C29 witness: a lock that has run out and was not swept is taken over by
   acquire_job_lock, where the sweep would have reset it *)
C29_Witness ==
    \E w \in Workers : \E id \in DOMAIN jobs :
        /\ pc[w] = "update"
        /\ Head(ready[w]).id = id
        /\ jobs[id].locked_until > 0
        /\ jobs[id].locked_until < now
        /\ ClearExpiredLocks(jobs, now)[id].locked_until = 0

(* C30. Upsert preserves an active lease: an add_job (enqueue or dlq retry) of
   a job id whose row is locked and which a worker is executing leaves the
   row's locked_until as it was. *)
C30_UpsertKeepsLease ==
    [][\A id \in DOMAIN jobs \cap DOMAIN jobs' :
          (/\ ~NoClientWrite
           /\ jobs[id].locked_until > now
           /\ \E w \in Workers : Executing(w) /\ job[w].id = id) =>
              jobs'[id].locked_until = jobs[id].locked_until]_vars

(* C31. release_job_lock never frees a lock held by a different worker: when
   worker w releases a job whose row carries the lock of another worker's
   claim, that worker still holding it, the row's locked_until is unchanged. *)
C31_ReleaseOnlyOwnLock ==
    [][\A w \in Workers : \A v \in Workers \ {w} :
          (/\ ReleaseStep(w)
           /\ HoldsLease(v, job[w].id)
           /\ ctime[v] # ctime[w]) =>
              jobs'[job[w].id].locked_until = jobs[job[w].id].locked_until]_vars

(* Worker w is inside _execute_job for job id: the job is marked processing
   and the finally block has not yet released it *)
InExecuteJob(w, id) ==
    /\ pc[w] \in {"run", "fail2", "dlq_delete", "dlq_commit", "release"}
    /\ job[w].id = id

(* C32. No orphaned Processing job: while no worker process has been killed,
   every live row in state Processing belongs to a job some worker is inside
   _execute_job for; a worker that leaves _execute_job, through an error
   included, does not leave the row in Processing. *)
C32_NoOrphanedProcessing ==
    (\A w \in Workers : pc[w] # "crashed") =>
        \A id \in DOMAIN jobs :
            jobs[id].state = PROCESSING => \E w \in Workers : InExecuteJob(w, id)

(* C33. Progress: with a worker that keeps polling, scheduled fairly, every
   job in the live table eventually is Completed or has left it for the
   dead-letter table; none stays Pending, Processing or Failed forever.  Stated
   for max_retries = 1, where no job waits for a retry time. *)
C33_Progress ==
    (/\ config.max_retries = 1
     /\ \E w \in Workers : []<>(pc[w] = "poll" /\ running[w]))
    => \A id \in JobIds :
          (id \in DOMAIN jobs /\ jobs[id].state # COMPLETED)
              ~> (\/ id \notin DOMAIN jobs /\ id \in DOMAIN dlq
                  \/ id \in DOMAIN jobs /\ jobs[id].state = COMPLETED)

(* The keys under which the document client c is about to write differs from
   the file as it is *)
StaleKeys(c) == {k \in DOMAIN config : k \notin DOMAIN ccfg[c] \/ ccfg[c][k] # config[k]}

(* C34. Concurrent set_config calls lose no update, and get_config never finds
   config.json partially written or empty: the file is readable in every
   state, and the document a set_config is about to write differs from the
   file's present content in no key but the one it sets. *)
C34_ConfigNoLostUpdate ==
    /\ [](Readable(config))
    /\ [][\A c \in DOMAIN cpc :
             (cpc[c] = "cfg_open" /\ cpc'[c] = "cfg_write" /\ Readable(config)) =>
                 Cardinality(StaleKeys(c)) <= 1]_vars

(* C35. A deleted job stays deleted: when the job a worker is executing is in
   neither table (a client has deleted its live row), no step of that worker
   puts the id back into the live table or into the dead-letter table. *)
C35_DeletedStaysDeleted ==
    [][\A w \in Workers : \A id \in JobIds :
          (/\ InExecuteJob(w, id)
           /\ pc'[w] # pc[w]
           /\ id \notin DOMAIN jobs
           /\ id \notin DOMAIN dlq) =>
              /\ id \notin DOMAIN jobs'
              /\ id \notin DOMAIN dlq']_vars

====
